---- MODULE Spec2Model ----
(***************************************************************************)
(* Model of pkg/download/artifactDownloader.go: the artifact cache         *)
(* (DownloadArtifact, DownloadCompressedArtifact, DownloadTool,            *)
(* GetCacheDirectory) and the streaming unpack pipeline (unpackTarXz).     *)
(*                                                                         *)
(* Strings are sequences of atoms.  An atom is one of the characters the   *)
(* code looks for ("-", ".", "/", "\\") or a maximal run of other          *)
(* characters ("fpm", "7z", "tar", ...).  strings.Index, slicing,          *)
(* HasSuffix, TrimSuffix, path.Base, path.Ext and filepath.Join only ever  *)
(* cut a string at those characters, so they are computed on atoms as the  *)
(* library computes them on bytes; indexes count atoms.                    *)
(***************************************************************************)
EXTENDS Integers, Sequences, FiniteSets, TLC

\* ------------------------------------------------------------------ bounds

\* longest artifact name (in atoms) enumerated by the path specification
MaxLen == 4
\* number of concurrent DownloadArtifact / DownloadCompressedArtifact calls
NumCalls == 2
\* longest decompressed stream (in blocks) fed through unpackTarXz
MaxStream == 4
\* capacity (in blocks) of each OS pipe of the streaming unpack
PipeCap == 1

\* ----------------------------------------------------------------- strings

Hy == "-"
Dot == "."
Sl == "/"
Bs == "\\"

\* strings.Index(s, a) for a one-atom needle: 0-based index of the first
\* occurrence, -1 when there is none
Index(s, a) ==
  IF \E i \in 1..Len(s) : s[i] = a
  THEN (CHOOSE i \in 1..Len(s) : s[i] = a /\ \A j \in 1..(i - 1) : s[j] # a) - 1
  ELSE -1

\* index (1-based) of the last occurrence of atom a in s, 0 when there is none
LastIndex1(s, a) ==
  IF \E i \in 1..Len(s) : s[i] = a
  THEN CHOOSE i \in 1..Len(s) : s[i] = a /\ \A j \in (i + 1)..Len(s) : s[j] # a
  ELSE 0

\* strings.HasSuffix
HasSuffix(s, suf) ==
  /\ Len(suf) <= Len(s)
  /\ SubSeq(s, Len(s) - Len(suf) + 1, Len(s)) = suf

\* strings.TrimSuffix
TrimSuffix(s, suf) ==
  IF HasSuffix(s, suf) THEN SubSeq(s, 1, Len(s) - Len(suf)) ELSE s

\* s with its trailing slashes removed (path.Base, first loop)
RECURSIVE StripTrailingSlashes(_)
StripTrailingSlashes(s) ==
  IF Len(s) > 0 /\ s[Len(s)] = Sl
  THEN StripTrailingSlashes(SubSeq(s, 1, Len(s) - 1))
  ELSE s

\* path.Base: the last element of the path; "." for the empty path, "/" for
\* a path made of slashes only
PathBase(s) ==
  IF s = <<>> THEN <<Dot>>
  ELSE LET t == StripTrailingSlashes(s)
           i == LastIndex1(t, Sl)
       IN  IF t = <<>> THEN <<Sl>> ELSE SubSeq(t, i + 1, Len(t))

\* path.Ext: the suffix beginning at the final dot of the final element
PathExt(s) ==
  LET d == LastIndex1(s, Dot)
      l == LastIndex1(s, Sl)
  IN  IF d > l THEN SubSeq(s, d, Len(s)) ELSE <<>>

\* the elements of a path separated by atom sep, empty ones included
RECURSIVE SplitOn(_, _)
SplitOn(s, sep) ==
  LET i == Index(s, sep)
  IN  IF i = -1 THEN <<s>>
      ELSE <<SubSeq(s, 1, i)>> \o SplitOn(SubSeq(s, i + 2, Len(s)), sep)

\* filepath.Clean's element stack: "." and empty elements dropped, ".."
\* removes the element before it, and is dropped at the root
RECURSIVE CleanStack(_, _, _)
CleanStack(elems, stack, rooted) ==
  IF elems = <<>> THEN stack
  ELSE LET e == Head(elems)
           rest == Tail(elems)
       IN  IF e = <<>> \/ e = <<Dot>> THEN CleanStack(rest, stack, rooted)
           ELSE IF e = <<Dot, Dot>>
           THEN IF Len(stack) > 0 /\ stack[Len(stack)] # <<Dot, Dot>>
                THEN CleanStack(rest, SubSeq(stack, 1, Len(stack) - 1), rooted)
                ELSE IF rooted THEN CleanStack(rest, stack, rooted)
                ELSE CleanStack(rest, Append(stack, e), rooted)
           ELSE CleanStack(rest, Append(stack, e), rooted)

\* the elements joined by single separators
RECURSIVE JoinOn(_, _)
JoinOn(elems, sep) ==
  IF elems = <<>> THEN <<>>
  ELSE IF Len(elems) = 1 THEN elems[1]
  ELSE elems[1] \o <<sep>> \o JoinOn(Tail(elems), sep)

\* filepath.FromSlash on a build whose separator is sep
FromSlash(s, sep) == [i \in 1..Len(s) |-> IF s[i] = Sl THEN sep ELSE s[i]]

\* filepath.Clean on a build whose separator is sep (volume names are not
\* modelled: a path is rooted when it starts with a separator)
Clean(s, sep) ==
  IF s = <<>> THEN <<Dot>>
  ELSE LET t == FromSlash(s, sep)
           rooted == t[1] = sep
           body == JoinOn(CleanStack(SplitOn(t, sep), <<>>, rooted), sep)
       IN  IF rooted THEN <<sep>> \o body
           ELSE IF body = <<>> THEN <<Dot>> ELSE body

\* filepath.Join(elems...): empty elements are ignored, the rest are joined
\* by the separator and the result is cleaned; "" when every element is empty
JoinAll(elems, sep) ==
  LET kept == SelectSeq(elems, LAMBDA e : e # <<>>)
  IN  IF kept = <<>> THEN <<>> ELSE Clean(JoinOn(kept, sep), sep)

Join(a, b, sep) == JoinAll(<<a, b>>, sep)

\* strings.Contains for a needle that starts and ends at atom boundaries
Contains(s, needle) ==
  \E i \in 1..(Len(s) - Len(needle) + 1) :
    SubSeq(s, i, i + Len(needle) - 1) = needle

\* strings.ToLower, atom by atom, for the atoms the model uses
LowerAtom(a) ==
  CASE a = "Windows" -> "windows"
    [] a = "WINDOWS" -> "windows"
    [] a = "System32" -> "system32"
    [] a = "SYSTEM" -> "system"
    [] a = "System" -> "system"
    [] OTHER -> a

ToLower(s) == [i \in 1..Len(s) |-> LowerAtom(s[i])]

\* all strings of at most n atoms over alphabet A
Strs(A, n) == UNION {[1..k -> A] : k \in 0..n}

\* ------------------------------------------------------- host and catalog

\* A host is [goos, goarch, cacheEnv, localAppData, username, home, tempDir]:
\* runtime.GOOS, runtime.GOARCH, $ELECTRON_BUILDER_CACHE, $LOCALAPPDATA,
\* $USERNAME, the result of homedir.Dir() as [err, dir], and os.TempDir().

\* the separator of path/filepath on the host's build
Sep(h) == IF h.goos = "windows" THEN Bs ELSE Sl

\* "electron-builder"
ProductName == <<"electron", Hy, "builder">>

\* GetCacheDirectory with nothing but its last branch
GetCacheDirectoryHomeOnly(dirName, h) ==
  IF h.home.err THEN [err |-> TRUE, path |-> <<>>]
  ELSE [err |-> FALSE,
        path |-> JoinAll(<<h.home.dir, <<Dot, "cache">>, ProductName>>, Sep(h))]

\* GetCacheDirectory(dirName): [err, path]
GetCacheDirectory(dirName, h) ==
  IF Len(h.cacheEnv) # 0 THEN [err |-> FALSE, path |-> h.cacheEnv]
  ELSE IF h.goos = "darwin"
  THEN IF h.home.err THEN [err |-> TRUE, path |-> <<>>]
       ELSE [err |-> FALSE,
             path |-> JoinAll(<<h.home.dir, <<"Library">>, <<"Caches">>, dirName>>, Sep(h))]
  ELSE IF h.goos = "windows" /\ Len(h.localAppData) # 0
  THEN IF \/ Contains(ToLower(h.localAppData), <<Bs, "windows", Bs, "system32", Bs>>)
          \/ ToLower(h.username) = <<"system">>
       THEN [err |-> FALSE,
             path |-> JoinAll(<<h.tempDir, dirName \o <<Hy, "cache">>>>, Sep(h))]
       ELSE [err |-> FALSE,
             path |-> JoinAll(<<h.localAppData, dirName, <<"cache">>>>, Sep(h))]
  ELSE IF h.home.err THEN [err |-> TRUE, path |-> <<>>]
  ELSE [err |-> FALSE,
        path |-> JoinAll(<<h.home.dir, <<Dot, "cache">>, ProductName>>, Sep(h))]

\* "https://github.com/"
GithubUrl == <<"https:", Sl, Sl, "github", Dot, "com", Sl>>

\* "electron-userland/electron-builder-binaries"
BinariesRepository ==
  <<"electron", Hy, "userland", Sl, "electron", Hy, "builder", Hy, "binaries">>

\* "/releases/download/"
ReleasesDownload == <<Sl, "releases", Sl, "download", Sl>>

\* ".7z"
Ext7z == <<Dot, "7z">>

\* "fpm-1.9.3-2.3.1-linux"
FpmLinuxName ==
  <<"fpm", Hy, "1", Dot, "9", Dot, "3", Hy, "2", Dot, "3", Dot, "1", Hy, "linux">>

\* "fpm-1.9.3-20150715-2.2.2-mac"
FpmMacName ==
  <<"fpm", Hy, "1", Dot, "9", Dot, "3", Hy, "20150715", Hy,
    "2", Dot, "2", Dot, "2", Hy, "mac">>

\* DownloadFpm(): the arguments of the DownloadArtifact call it makes
DownloadFpm(h) ==
  IF h.goos = "linux"
  THEN LET checksum ==
             IF h.goarch = "amd64"
             THEN "fcKdXPJSso3xFs5JyIJHG1TfHIRTGDP0xhSBGZl7pPZlz4/TJ4rD/q3wtO/uaBBYeX0qFFQAFjgu1uJ6HLHghA=="
             ELSE "OnzvBdsHE5djcXcAT87rwbnZwS789ZAd2ehuIO42JWtBAHNzXKxV4o/24XFX5No4DJWGO2YSGQttW+zn7d/4rQ=="
           archSuffix ==
             IF h.goarch = "amd64" THEN <<Hy, "x86_64">> ELSE <<Hy, "x86">>
           name == FpmLinuxName \o archSuffix
       IN  [name |-> name,
            url |-> GithubUrl \o BinariesRepository \o ReleasesDownload
                      \o name \o <<Sl>> \o name \o Ext7z,
            checksum |-> checksum]
  ELSE [name |-> FpmMacName,
        url |-> GithubUrl \o BinariesRepository \o ReleasesDownload
                  \o FpmMacName \o <<Sl>> \o FpmMacName \o Ext7z,
        checksum |-> "oXfq+0H2SbdrbMik07mYloAZ8uHrmf6IJk+Q3P1kwywuZnKTXSaaeZUJNlWoVpRDWNu537YxxpBQWuTcF+6xfw=="]

\* a Go map read: the zero value "" for a key that is not in the map
MapGet(m, k) == IF k \in DOMAIN m THEN m[k] ELSE ""

\* the ToolDescriptor literal of DownloadZstd
ZstdDescriptor ==
  [name |-> <<"zstd">>,
   version |-> <<"1", Dot, "3", Dot, "4">>,
   repository |-> <<>>,
   mac |-> "pLrLk2FAkop3C2drZ7+oxyGPQJjNMzUmVf0m3ZCc1a3WIEjYJNpq9UYvfBU/dl2CsRAchlKvoIOWRxRIdX0ugA==",
   linux |-> [a \in {"x64"} |->
     "C1TcuuN/0nNvHMwfkKmE8rgsDxkeSbGoV4DMSf4kIJIO4mNp+PUayYeBf4h3usScsWfvX70Jvg5v3yt1FySTDg=="],
   win |-> [a \in {"ia32", "x64"} |->
     IF a = "ia32"
     THEN "URJhIibWZUEy9USYlHBjc6bgEp7KP+hMJl/YWsssMTt6umxgk+niyc5meKs2XwOwBsvK6KsP+Qr/BawK7CdWVQ=="
     ELSE "S4RtWJwccUQfr/UQeZuWTJyJvU5uaYaP3rGT6e55epuAJx+fuljbJTBw+n8da0oRLIw0essEjGHkNafWgmKt1w=="]]

\* DownloadTool, normalisation of runtime.GOARCH
ToolArch(goarch) ==
  IF goarch = "arm" THEN "armv7"
  ELSE IF goarch = "arm64" THEN "armv8"
  ELSE IF goarch = "amd64" THEN "x64"
  ELSE goarch

\* DownloadTool, the table lookup: [checksum, archQualifier, osQualifier]
ToolLookup(d, osName, goarch) ==
  LET arch == ToolArch(goarch)
  IN  IF osName = "darwin"
      THEN [checksum |-> d.mac, archQualifier |-> <<>>, osQualifier |-> <<"mac">>]
      ELSE IF osName = "win32"
      THEN [checksum |-> MapGet(d.win, arch), archQualifier |-> <<Hy, arch>>,
            osQualifier |-> <<"win">>]
      ELSE [checksum |-> MapGet(d.linux, arch), archQualifier |-> <<Hy, arch>>,
            osQualifier |-> <<"linux">>]

\* ToolRefuses with the refusal dropped: the download goes on unverified
ToolNeverRefuses(checksum) == FALSE

\* DownloadTool, the refusal: no checksum registered for the platform
ToolRefuses(checksum) == checksum = ""

\* DownloadTool(descriptor, osName): [err] when refused, else [err, args],
\* the arguments of the DownloadArtifact call it makes
DownloadTool(d, osName, h) ==
  LET l == ToolLookup(d, osName, h.goarch)
      repository == IF d.repository = <<>> THEN BinariesRepository ELSE d.repository
      tagPrefix == IF d.repository = <<>> THEN d.name \o <<Hy>> ELSE <<"v">>
      osAndArch == l.osQualifier \o l.archQualifier
  IN  IF ToolRefuses(l.checksum) THEN [err |-> TRUE]
      ELSE [err |-> FALSE,
            args |->
              [name |-> d.name \o <<Hy>> \o d.version \o <<Hy>> \o osAndArch,
               url |-> GithubUrl \o repository \o ReleasesDownload
                         \o tagPrefix \o d.version \o <<Sl>> \o d.name
                         \o <<Hy, "v">> \o d.version \o <<Hy>> \o osAndArch \o Ext7z,
               checksum |-> l.checksum]]

\* DownloadZstd(osName)
DownloadZstd(osName, h) == DownloadTool(ZstdDescriptor, osName, h)

\* ------------------------------------------- DownloadArtifact, the plan

\* DownloadArtifact, the dispatch on the well-known names: [err] or [err, args]
Dispatch(a, h) ==
  IF a.name = <<"fpm">> THEN [err |-> FALSE, args |-> DownloadFpm(h)]
  ELSE IF a.name = <<"zstd">> THEN DownloadZstd(h.goos, h)
  ELSE [err |-> FALSE, args |-> a]

\* "https://nodejs.org/dist/v" + version + "/node-v" + versionAndArch + ".tar.xz"
NodeUrl(version, versionAndArch) ==
  <<"https:", Sl, Sl, "nodejs", Dot, "org", Sl, "dist", Sl, "v">> \o version
    \o <<Sl, "node", Hy, "v">> \o versionAndArch \o <<Dot, "tar", Dot, "xz">>

\* the Node.js rewrite: [panic] when the slice bound is -1 (the token has no
\* hyphen: versionAndArch[0:-1] aborts the program), else [panic, args]
NodeRewrite(a) ==
  IF a.name # <<"node">> THEN [panic |-> FALSE, args |-> a]
  ELSE LET versionAndArch == a.url
           hy == Index(versionAndArch, Hy)
       IN  IF hy < 0 THEN [panic |-> TRUE]
           ELSE [panic |-> FALSE,
                 args |-> [name |-> a.name \o <<Hy>> \o versionAndArch,
                           url |-> NodeUrl(SubSeq(versionAndArch, 1, hy), versionAndArch),
                           checksum |-> a.checksum]]

\* the directory name of an unnamed artifact: the URL's base name without
\* its extension
DeriveDirName(name, url) ==
  IF Len(name) = 0
  THEN LET fileName == PathBase(url) IN TrimSuffix(fileName, PathExt(fileName))
  ELSE name

\* FamilyOf with the test "hyphenIndex >= 0": a leading hyphen gives an
\* empty family
FamilyOfAnyHyphen(dirName) ==
  LET hyphenIndex == Index(dirName, Hy)
  IN  IF hyphenIndex >= 0 THEN SubSeq(dirName, 1, hyphenIndex) ELSE dirName

\* the part of dirName that names its family directory
FamilyOf(dirName) ==
  LET hyphenIndex == Index(dirName, Hy)
  IN  IF hyphenIndex > 0 THEN SubSeq(dirName, 1, hyphenIndex) ELSE dirName

\* cacheDir of DownloadArtifact: the family directory under the cache root
CacheDirOf(root, dirName, sep) == Join(root, FamilyOf(dirName), sep)

\* filePath of DownloadArtifact: the final path of the artifact
FilePathOf(root, dirName, sep) == Join(CacheDirOf(root, dirName, sep), dirName, sep)

\* ".tar.7z" and ".tar"
ExtTar7z == <<Dot, "tar", Dot, "7z">>
ExtTar == <<Dot, "tar">>

\* DownloadArtifact up to the cache lookup (lines 39-70): what the call is
\* about to do.  outcome is "panic" (the program aborts), "error" (an error
\* is returned before any file-system access) or "ok".
Plan(a, h) ==
  LET d == Dispatch(a, h)
  IN  IF d.err THEN [outcome |-> "error", why |-> "checksum"]
      ELSE LET n == NodeRewrite(d.args)
           IN  IF n.panic THEN [outcome |-> "panic"]
               ELSE LET isNode == d.args.name = <<"node">>
                        dirName == DeriveDirName(n.args.name, n.args.url)
                        root == GetCacheDirectory(ProductName, h)
                    IN  IF root.err THEN [outcome |-> "error", why |-> "home"]
                        ELSE [outcome |-> "ok",
                              isNode |-> isNode,
                              dirName |-> dirName,
                              url |-> n.args.url,
                              checksum |-> n.args.checksum,
                              tar7z |-> HasSuffix(n.args.url, ExtTar7z),
                              cacheDir |-> CacheDirOf(root.path, dirName, Sep(h)),
                              filePath |-> FilePathOf(root.path, dirName, Sep(h))]

\* ------------------------------------------------------------------ state

VARIABLES
  host,    \* the host environment of the program (see above)
  final,   \* final path -> the entry found there
  dirs,    \* the cache (family) directories that exist
  tmp,     \* call -> its temporary unpack directory
  arc,     \* call -> its temporary archive file
  call,    \* call -> its position, request, result and the effects it had
  main,    \* unpackTarXz: the calling goroutine
  p1,      \* unpackTarXz: Process 1, the xz decompressor
  p2,      \* unpackTarXz: Process 2, the tar extractor
  pipe1,   \* the OS pipe from Process 1's stdout to the relay (xzStdout)
  pipe2,   \* the OS pipe from the relay to Process 2's stdin (tarStdin)
  relay,   \* the goroutine that copies xzStdout to tarStdin
  pIn,     \* path specification: the request under test
  pOut     \* path specification: the plan computed for it

vars == <<host, final, dirs, tmp, arc, call, main, p1, p2, pipe1, pipe2, relay, pIn, pOut>>

fsVars == <<final, dirs, tmp, arc>>
pipeVars == <<main, p1, p2, pipe1, pipe2, relay>>
pathVars == <<pIn, pOut>>

Calls == 1..NumCalls

\* "/r": the cache root the hosts of the model relocate the cache to
Root == <<Sl, "r">>

\* a Linux/amd64 host with $ELECTRON_BUILDER_CACHE pointing at the root
LinuxHost ==
  [goos |-> "linux", goarch |-> "amd64", cacheEnv |-> Root, localAppData |-> <<>>,
   username |-> <<"u">>, home |-> [err |-> FALSE, dir |-> <<Sl, "h">>],
   tempDir |-> <<Sl, "tmp">>]

\* a request is the entry point called and its arguments
ArtifactReq(name, url, checksum) ==
  [entry |-> "artifact", name |-> name, url |-> url, checksum |-> checksum]

ToolReq(d, osName) == [entry |-> "tool", d |-> d, osName |-> osName]

\* what a request is about to do on host h (see Plan)
PlanOf(req, h) ==
  IF req.entry = "tool"
  THEN LET t == DownloadTool(req.d, req.osName, h)
       IN  IF t.err THEN [outcome |-> "error", why |-> "checksum"] ELSE Plan(t.args, h)
  ELSE Plan([name |-> req.name, url |-> req.url, checksum |-> req.checksum], h)

\* ------------------------------------------------------------ file system

Absent == [kind |-> "absent"]

\* an unpacked tree is empty (just created), partial or complete; nested is
\* the entry inside it that carries the directory's own base name: "none",
\* "file" or "dir" (what the archive tool made of a .tar.7z archive)
TmpDir(state, nested) == [kind |-> "dir", state |-> state, nested |-> nested]

\* an entry published at a final path by call c
Entry(kind, state, c) == [kind |-> kind, state |-> state, by |-> c]

\* Lookup with every existing entry taken for a hit
LookupAnyEntryHits(entry, filePath, ioerr) ==
  IF ioerr THEN "error" ELSE IF entry.kind = "absent" THEN "miss" ELSE "hit"

\* os.Stat(filePath) followed by the hit test of lines 76-84:
\* "hit", "miss" (does not exist), "unusable" (exists, neither a directory
\* nor a path ending in .tar: acquisition proceeds) or "error"
Lookup(entry, filePath, ioerr) ==
  IF ~ioerr /\ entry.kind # "absent" /\ (entry.kind = "dir" \/ HasSuffix(filePath, ExtTar))
  THEN "hit"
  ELSE IF ioerr THEN "error"
  ELSE IF entry.kind = "absent" THEN "miss"
  ELSE "unusable"

\* os.Rename(src, dst) on entries: whether the rename succeeds.  A missing
\* source fails; a directory replaces nothing but an absent or empty
\* directory; a file replaces an absent entry or a file.
RenameOk(src, dst, ioerr) ==
  /\ ~ioerr
  /\ src.kind # "absent"
  /\ \/ dst.kind = "absent"
     \/ src.kind = "dir" /\ dst.kind = "dir" /\ dst.state = "empty"
     \/ src.kind = "file" /\ dst.kind = "file"

\* the source of the publish rename (lines 132-137): the nested entry for a
\* .tar.7z URL, the temporary directory otherwise
PublishSource(plan, t) ==
  IF plan.tar7z
  THEN IF t.kind = "absent" \/ t.nested = "none" THEN Absent
       ELSE [kind |-> t.nested, state |-> t.state]
  ELSE IF t.kind = "absent" THEN Absent
  ELSE [kind |-> "dir", state |-> t.state]

\* the temporary directory after the publish step: gone when it was renamed
\* or removed (os.RemoveAll, .tar.7z only), left behind when the rename of
\* the whole directory failed
TmpAfterPublish(plan, t, ok) ==
  IF plan.tar7z \/ ok THEN Absent ELSE t

\* AfterDownload with the error of the collaborator ignored
AfterDownloadIgnoringError(err) == "unpack"

\* the position after the download collaborator returns (lines 106-109)
AfterDownload(err) == IF err THEN "done" ELSE "unpack"

\* AfterUnpack with the error of the archive tool ignored
AfterUnpackIgnoringError(err) == "remove"

\* the position after the archive tool returns (lines 111-125)
AfterUnpack(err) == IF err THEN "done" ELSE "remove"

\* the result of the call after the publish step (lines 139-148): the path,
\* whatever the rename returned
AfterPublish(ok) == "path"

\* --------------------------------------------------- DownloadArtifact

\* the entry at a final path
EntryAt(fp) == IF fp \in DOMAIN final THEN final[fp] ELSE Absent

\* the plan of call c, computed when the call was made
PlanOfCall(c) == call[c].plan

IdleCall ==
  [pc |-> "idle", req |-> <<>>, plan |-> <<>>, ret |-> "none", why |-> "none",
   log |-> {}, dl |-> "none", renamed |-> FALSE, after |-> {}]

\* the call returns an error
Failed(c, why, effect) ==
  [call EXCEPT ![c].pc = "done", ![c].ret = "error", ![c].why = why,
               ![c].log = @ \cup effect]

\* the call moves on to position pc
Goes(c, pc, effect) == [call EXCEPT ![c].pc = pc, ![c].log = @ \cup effect]

\* lines 39-70: the call is made with request a; everything up to the cache
\* lookup is computed without touching the file system.  "after" remembers
\* the calls with the same request that had already returned a path.
Begin(c, a) ==
  /\ call[c].pc = "idle"
  /\ LET plan == PlanOf(a, host)
     IN  call' = [call EXCEPT ![c] =
           [pc |-> IF plan.outcome = "ok" THEN "stat" ELSE "done",
            req |-> a,
            plan |-> plan,
            ret |-> IF plan.outcome = "ok" THEN "none" ELSE plan.outcome,
            why |-> IF plan.outcome = "error" THEN plan.why ELSE "none",
            log |-> {},
            dl |-> "none",
            renamed |-> FALSE,
            after |-> {d \in Calls : /\ call[d].pc = "done"
                                     /\ call[d].ret = "path"
                                     /\ call[d].req = a}]]
  /\ UNCHANGED <<host, fsVars, pipeVars, pathVars>>

\* lines 76-84: the cache lookup
Stat(c) ==
  /\ call[c].pc = "stat"
  /\ \E ioerr \in BOOLEAN :
       LET fp == PlanOfCall(c).filePath
           r == Lookup(EntryAt(fp), fp, ioerr)
       IN  call' = IF r = "hit"
                   THEN [call EXCEPT ![c].pc = "done", ![c].ret = "path",
                                     ![c].log = @ \cup {"stat"}]
                   ELSE IF r = "error" THEN Failed(c, "lookup", {"stat"})
                   ELSE Goes(c, "mkdir", {"stat"})
  /\ UNCHANGED <<host, fsVars, pipeVars, pathVars>>

\* lines 86-89: os.MkdirAll(cacheDir)
MkdirAll(c) ==
  /\ call[c].pc = "mkdir"
  /\ \E ioerr \in BOOLEAN :
       /\ call' = IF ioerr THEN Failed(c, "mkdir", {"mkdir"})
                  ELSE Goes(c, "tempdir", {"mkdir"})
       /\ dirs' = IF ioerr THEN dirs ELSE dirs \cup {PlanOfCall(c).cacheDir}
  /\ UNCHANGED <<host, final, tmp, arc, pipeVars, pathVars>>

\* lines 94-97: util.TempDir(cacheDir, ""): a directory of a fresh name, so
\* each call has its own
TempDir(c) ==
  /\ call[c].pc = "tempdir"
  /\ \E ioerr \in BOOLEAN :
       /\ call' = IF ioerr THEN Failed(c, "tempdir", {"tempdir"})
                  ELSE Goes(c, "download", {"tempdir"})
       /\ tmp' = IF ioerr THEN tmp ELSE [tmp EXCEPT ![c] = TmpDir("empty", "none")]
  /\ UNCHANGED <<host, final, dirs, arc, pipeVars, pathVars>>

\* line 106, the download collaborator at work: it writes the archive file
DownloadWrite(c) ==
  /\ call[c].pc = "download"
  /\ arc[c] = "absent"
  /\ arc' = [arc EXCEPT ![c] = "partial"]
  /\ call' = Goes(c, "download", {"download"})
  /\ UNCHANGED <<host, final, dirs, tmp, pipeVars, pathVars>>

\* lines 106-109: the download collaborator returns: the archive is fetched
\* and verified, or an error (checksum mismatch, transfer failure)
DownloadEnd(c) ==
  /\ call[c].pc = "download"
  /\ \E err \in BOOLEAN :
       /\ call' = [(IF AfterDownload(err) = "done"
                      THEN Failed(c, "download", {"download"})
                      ELSE Goes(c, AfterDownload(err), {"download"}))
                    EXCEPT ![c].dl = IF err THEN "failed" ELSE "ok"]
       /\ arc' = IF err THEN arc ELSE [arc EXCEPT ![c] = "complete"]
  /\ UNCHANGED <<host, final, dirs, tmp, pipeVars, pathVars>>

\* lines 111-119, the archive tool at work (7za x, or the two processes of
\* unpackTarXz): it extracts into the temporary directory
UnpackWrite(c) ==
  /\ call[c].pc = "unpack"
  /\ tmp[c].kind = "dir" /\ tmp[c].state = "empty"
  /\ tmp' = [tmp EXCEPT ![c] = TmpDir("partial", "none")]
  /\ call' = Goes(c, "unpack", {"exec"})
  /\ UNCHANGED <<host, final, dirs, arc, pipeVars, pathVars>>

\* lines 111-125: the archive tool returns.  On success the tree is
\* complete; for a .tar.7z URL the archive decides what the nested entry is.
UnpackEnd(c) ==
  /\ call[c].pc = "unpack"
  /\ \E err \in BOOLEAN, nested \in {"none", "file", "dir"} :
       /\ nested # "none" => PlanOfCall(c).tar7z /\ ~err
       /\ call' = IF AfterUnpack(err) = "done"
                  THEN Failed(c, "unpack", {"exec"})
                  ELSE Goes(c, AfterUnpack(err), {"exec"})
       /\ tmp' = IF err THEN tmp ELSE [tmp EXCEPT ![c] = TmpDir("complete", nested)]
  /\ UNCHANGED <<host, final, dirs, arc, pipeVars, pathVars>>

\* lines 127-130: os.Remove(archiveName); an archive that is not there is an
\* error like any other
Remove(c) ==
  /\ call[c].pc = "remove"
  /\ \E ioerr \in BOOLEAN :
       LET err == ioerr \/ arc[c] = "absent"
       IN  /\ call' = IF err THEN Failed(c, "remove", {"remove"})
                      ELSE Goes(c, "publish", {"remove"})
           /\ arc' = IF err THEN arc ELSE [arc EXCEPT ![c] = "absent"]
  /\ UNCHANGED <<host, final, dirs, tmp, pipeVars, pathVars>>

\* line 127, the environment: the cache root is an ordinary directory, and
\* something else deletes the temporary archive after the unpack and before
\* os.Remove(archiveName) runs
ArchiveVanishes(c) ==
  /\ call[c].pc = "remove"
  /\ arc[c] = "complete"
  /\ arc' = [arc EXCEPT ![c] = "absent"]
  /\ UNCHANGED <<host, final, dirs, tmp, call, pipeVars, pathVars>>

\* lines 132-148: the publish rename, the removal of the outer directory
\* (.tar.7z), the warning, and the return of filePath
Publish(c) ==
  /\ call[c].pc = "publish"
  /\ \E ioerr \in BOOLEAN :
       LET plan == PlanOfCall(c)
           fp == plan.filePath
           src == PublishSource(plan, tmp[c])
           ok == RenameOk(src, EntryAt(fp), ioerr)
       IN  /\ final' = IF ok
                       THEN [q \in DOMAIN final \cup {fp} |->
                               IF q = fp THEN Entry(src.kind, src.state, c) ELSE final[q]]
                       ELSE final
           /\ tmp' = [tmp EXCEPT ![c] = TmpAfterPublish(plan, tmp[c], ok)]
           /\ call' = [call EXCEPT ![c].pc = "done", ![c].ret = AfterPublish(ok),
                                   ![c].why = IF AfterPublish(ok) = "error" THEN "rename" ELSE "none",
                                   ![c].renamed = ok,
                                   ![c].log = @ \cup {"rename"}]
  /\ UNCHANGED <<host, dirs, arc, pipeVars, pathVars>>

\* ------------------------------------------------- idle parts of the state

IdleFs ==
  /\ final = [q \in {} |-> Absent]
  /\ dirs = {}
  /\ tmp = [c \in Calls |-> Absent]
  /\ arc = [c \in Calls |-> "absent"]

IdlePipe ==
  /\ main = [pc |-> "idle", err |-> "none", steps |-> <<>>]
  /\ p1 = [st |-> "unstarted", next |-> 1, n |-> 0, failAt |-> 0, status |-> 0]
  /\ p2 = [st |-> "unstarted", got |-> <<>>, quitAt |-> -1, hasEntry |-> TRUE, status |-> 0]
  /\ pipe1 = [buf |-> <<>>, rd |-> FALSE]
  /\ pipe2 = [buf |-> <<>>, wr |-> FALSE]
  /\ relay = [pc |-> "unstarted", chunk |-> <<>>]

IdlePath ==
  /\ pIn = <<>>
  /\ pOut = <<>>

\* ------------------------------------------ concurrent calls on one cache

\* "https://h/"
SampleHost == <<"https:", Sl, Sl, "h", Sl>>

\* the requests of the concurrent specification: a named artifact, the same
\* name with a .tar.7z URL, an unnamed .tar.7z artifact (its final path ends
\* in .tar), and a Node.js runtime
SpecRequests ==
  { ArtifactReq(<<"a", Hy, "b">>, SampleHost \o <<"a", Hy, "b", Dot, "7z">>, "sum"),
    ArtifactReq(<<"a", Hy, "b">>, SampleHost \o <<"a", Hy, "b", Dot, "tar", Dot, "7z">>, "sum"),
    ArtifactReq(<<>>, SampleHost \o <<"s", Dot, "tar", Dot, "7z">>, ""),
    ArtifactReq(<<"node">>, <<"8", Dot, "1", Hy, "x64">>, "") }

Init ==
  /\ host = LinuxHost
  /\ call = [c \in Calls |-> IdleCall]
  /\ IdleFs
  /\ IdlePipe
  /\ IdlePath

Next ==
  \E c \in Calls :
    \/ \E a \in SpecRequests : Begin(c, a)
    \/ Stat(c)
    \/ MkdirAll(c)
    \/ TempDir(c)
    \/ DownloadWrite(c)
    \/ DownloadEnd(c)
    \/ UnpackWrite(c)
    \/ UnpackEnd(c)
    \/ Remove(c)
    \/ Publish(c)

Spec == Init /\ [][Next]_vars

Done(c) == call[c].pc = "done"

\* the cache lookup on a final path is a hit
LookupHit(fp) == Lookup(EntryAt(fp), fp, FALSE) = "hit"

Concurrent(c, d) ==
  /\ c # d
  /\ call[c].req = call[d].req
  /\ c \notin call[d].after
  /\ d \notin call[c].after

\* C2: when two concurrent calls for the same request both missed the cache
\* and both went through to the publish step, both return the final path
\* with no error, the lookup on it is a hit, and the entry there is the
\* complete unpack published by exactly one of them.
C2_RaceIsBenign ==
  \A c, d \in Calls :
    ( /\ Concurrent(c, d)
      /\ Done(c) /\ Done(d)
      /\ {"mkdir", "rename"} \subseteq call[c].log
      /\ {"mkdir", "rename"} \subseteq call[d].log )
    => /\ call[c].ret = "path" /\ call[d].ret = "path"
       /\ LookupHit(call[c].plan.filePath)
       /\ EntryAt(call[c].plan.filePath).state = "complete"
       /\ EntryAt(call[c].plan.filePath).by \in {c, d}
       /\ call[c].renamed # call[d].renamed

\* C3: a call made after a call with the identical request returned a path
\* returns that path too and does nothing but the cache lookup (the lookup
\* itself not failing): no directory, no temp entry, no download, no process.
C3_Idempotent ==
  \A c \in Calls :
    (call[c].after # {} /\ call[c].why # "lookup")
    => /\ call[c].log \subseteq {"stat"}
       /\ Done(c) => call[c].ret = "path"

\* C4: whenever a call returns a path with no error, the cache lookup on
\* that path is a hit.
C4_ReturnedPathIsUsable ==
  \A c \in Calls :
    (Done(c) /\ call[c].ret = "path") => LookupHit(call[c].plan.filePath)

\* C5: a call whose download collaborator failed has returned an error, has
\* started no unpack process, has performed no later step, and has published
\* nothing at any final path.
C5_DownloadFailureStops ==
  \A c \in Calls :
    call[c].dl = "failed"
    => /\ Done(c) /\ call[c].ret = "error" /\ call[c].why = "download"
       /\ call[c].log \subseteq {"stat", "mkdir", "tempdir", "download"}
       /\ ~call[c].renamed
       /\ tmp[c] = TmpDir("empty", "none")
       /\ \A fp \in DOMAIN final : final[fp].by # c

\* C5 witness: a call failed in its download, leaving a partial archive,
\* while the final path holds what another call published
C5_Witness ==
  \E c, d \in Calls :
    /\ c # d
    /\ call[c].dl = "failed" /\ Done(c) /\ arc[c] = "partial"
    /\ call[d].renamed
    /\ call[d].plan.filePath = call[c].plan.filePath


\* ------------------------------------------------- the path specification

\* the atoms of the names under test
PathAlphabet == {"a", "node", Hy, Dot, Sl}

\* the url arguments under test: a URL, a Node.js version-and-architecture
\* token, and a token without a hyphen
PathUrls ==
  { SampleHost \o <<"s", Hy, "t", Dot, "tar", Dot, "7z">>,
    <<"8", Dot, "1", Hy, "x64">>,
    <<"8", Dot, "1">> }

InitPath ==
  /\ host = LinuxHost
  /\ call = [c \in Calls |-> IdleCall]
  /\ IdleFs
  /\ IdlePipe
  /\ pIn \in {ArtifactReq(name, url, "") : name \in Strs(PathAlphabet, MaxLen), url \in PathUrls}
  /\ pOut = <<>>

\* lines 39-70 applied to the request under test
PathApply ==
  /\ pOut = <<>>
  /\ pOut' = PlanOf(pIn, host)
  /\ UNCHANGED <<host, fsVars, call, pipeVars, pIn>>

NextPath == PathApply

SpecPath == InitPath /\ [][NextPath]_vars

\* the path computation was reached with a non-empty dirName
PathReached == pOut # <<>> /\ pOut.outcome = "ok" /\ pOut.dirName # <<>>

\* cacheRoot/family/dirName, as a cleaned path
UnderFamily(family, dirName) ==
  Clean(Root \o <<Sl>> \o family \o <<Sl>> \o dirName, Sl)

\* "/r/fpm/fpm-1.9.3-2.3.1-linux-x86_64"
FpmExamplePath ==
  <<Sl, "r", Sl, "fpm", Sl, "fpm", Hy, "1", Dot, "9", Dot, "3", Hy,
    "2", Dot, "3", Dot, "1", Hy, "linux", Hy, "x86_64">>

\* C8, as stated: for every non-empty dirName that reaches the path
\* computation, finalPath is cacheRoot/family/dirName, where family is the
\* part of dirName before its first hyphen, and cacheRoot/dirName/dirName
\* when dirName has no hyphen.
C8_FamilyBeforeFirstHyphen ==
  PathReached =>
    LET d == pOut.dirName
        hy == Index(d, Hy)
    IN  pOut.filePath = UnderFamily(IF hy >= 0 THEN SubSeq(d, 1, hy) ELSE d, d)

\* C8, amended: for every non-empty dirName that reaches the path
\* computation, finalPath is cacheRoot/family/dirName, where family is the
\* part of dirName before its first hyphen when that part is not empty, and
\* dirName itself when dirName has no hyphen or begins with one; the fpm
\* example maps to cacheRoot/fpm/fpm-1.9.3-2.3.1-linux-x86_64 and zstd to
\* cacheRoot/zstd/zstd.
C8_FamilyGrouping ==
  /\ PathReached =>
       LET d == pOut.dirName
           hy == Index(d, Hy)
       IN  pOut.filePath = UnderFamily(IF hy >= 1 THEN SubSeq(d, 1, hy) ELSE d, d)
  /\ FilePathOf(Root, FpmLinuxName \o <<Hy, "x86_64">>, Sl) = FpmExamplePath
  /\ FilePathOf(Root, <<"zstd">>, Sl) = <<Sl, "r", Sl, "zstd", Sl, "zstd">>

\* C8 witness: a name with an inner hyphen was grouped under its family
C8_Witness ==
  /\ PathReached
  /\ pOut.dirName = <<"a", Hy, "node", Dot>>
  /\ pOut.filePath = <<Sl, "r", Sl, "a", Sl, "a", Hy, "node", Dot>>

\* ------------------------------------------------- the tool specification

\* a descriptor of a tool released from its own repository, with no macOS
\* build and no Windows build
RepoDescriptor ==
  [name |-> <<"x">>,
   version |-> <<"2", Dot, "0">>,
   repository |-> <<"o", Sl, "x">>,
   mac |-> "",
   linux |-> [a \in {"x64", "armv7", "armv8"} |-> "sum-" \o a],
   win |-> [a \in {} |-> ""]]

\* the hosts of the tool specification: every OS and architecture, the cache
\* relocated to the root; and two hosts that fall back to the home directory
ToolHosts ==
  { [LinuxHost EXCEPT !.goos = os, !.goarch = arch] :
      os \in {"linux", "darwin", "windows"}, arch \in {"amd64", "386", "arm", "arm64"} }
  \cup
  { [LinuxHost EXCEPT !.cacheEnv = <<>>, !.home = [err |-> e, dir |-> <<Sl, "h">>]] :
      e \in BOOLEAN }

\* DownloadTool called directly with each OS name, and DownloadArtifact
\* called with the names it resolves through the catalog
ToolRequests ==
  { ToolReq(d, osName) : d \in {ZstdDescriptor, RepoDescriptor},
                         osName \in {"darwin", "win32", "linux", "windows"} }
  \cup { ArtifactReq(<<"zstd">>, <<>>, ""), ArtifactReq(<<"fpm">>, <<>>, "") }

InitTool ==
  /\ host \in ToolHosts
  /\ call = [c \in Calls |-> IdleCall]
  /\ IdleFs
  /\ IdlePipe
  /\ IdlePath

NextTool ==
  \/ \E a \in ToolRequests : Begin(1, a)
  \/ Stat(1)
  \/ MkdirAll(1)
  \/ TempDir(1)
  \/ DownloadWrite(1)
  \/ DownloadEnd(1)
  \/ UnpackWrite(1)
  \/ UnpackEnd(1)
  \/ Remove(1)
  \/ Publish(1)

SpecTool == InitTool /\ [][NextTool]_vars

\* call c entered DownloadTool with an OS and architecture for which the
\* descriptor registers no checksum
Unsupported(c) ==
  /\ call[c].pc # "idle"
  /\ call[c].req.entry = "tool"
  /\ ToolLookup(call[c].req.d, call[c].req.osName, host.goarch).checksum = ""

\* C9: DownloadTool called with an OS/architecture combination for which the
\* descriptor registers no checksum returns a configuration error, having
\* done no cache lookup, created no directory or temp entry, downloaded
\* nothing and started no process: the file system is as it was.
C9_UnsupportedPlatformRefused ==
  \A c \in Calls :
    Unsupported(c)
    => /\ Done(c) /\ call[c].ret = "error" /\ call[c].why = "checksum"
       /\ call[c].log = {}
       /\ IdleFs

\* C9 witness: the zstd descriptor was refused for linux on an arm64 host
C9_Witness ==
  /\ Unsupported(1) /\ Done(1)
  /\ call[1].req = ToolReq(ZstdDescriptor, "linux")
  /\ host.goos = "linux" /\ host.goarch = "arm64"

\* ------------------------------------------------------------ unpackTarXz

\* The decompressed stream is blocks 1..n.  Process 1 writes them in order to
\* pipe1 and exits 0, or fails before block failAt (failAt = n + 1: after the
\* last block; 0: never).  Process 2 reads pipe2 until end-of-stream
\* (quitAt = -1) or exits on its own after quitAt blocks; it exits 0 exactly
\* when it has read the whole stream.  hasEntry: the archive holds */bin/node.

\* the blocks 1..k in order
Blocks(k) == [i \in 1..k |-> i]

\* the node binary in the unpack directory after Process 2 has read `got`
Extracted(got, n, hasEntry) ==
  IF ~hasEntry \/ got = <<>> THEN "empty"
  ELSE IF Len(got) = n THEN "complete"
  ELSE "partial"

\* the relay after io.Copy returns (line 180, the deferred Close)
AfterCopyNoClose == "done"

AfterCopy == "close"

\* unpackTarXz returns
Returned(err) == [main EXCEPT !.pc = "returned", !.err = err]

\* unpackTarXz goes on to position pc, having completed step done
Proceeds(pc, done) == [main EXCEPT !.pc = pc, !.steps = Append(@, done)]

\* Wait with the exit status ignored
WaitErrorIgnoringStatus(status) == FALSE

\* lines 184-192: Wait returns an error when the process exited non-zero
WaitError(status) == status # 0

\* lines 152-163: the pipe from Process 1 is made and Process 1 is started
XzStart ==
  /\ main.pc = "start1"
  /\ \E ok \in BOOLEAN :
       IF ok
       THEN /\ main' = Proceeds("start2", "start1")
            /\ p1' = [p1 EXCEPT !.st = "running"]
            /\ pipe1' = [pipe1 EXCEPT !.rd = TRUE]
            /\ call' = Goes(1, "unpack", {"exec"})
       ELSE /\ main' = Returned("start1")
            /\ UNCHANGED <<p1, pipe1, call>>
  /\ UNCHANGED <<host, fsVars, p2, pipe2, relay, pathVars>>

\* lines 166-177: the pipe to Process 2 is made and Process 2 is started
TarStart ==
  /\ main.pc = "start2"
  /\ \E ok \in BOOLEAN :
       IF ok
       THEN /\ main' = Proceeds("go", "start2")
            /\ p2' = [p2 EXCEPT !.st = "running"]
            /\ pipe2' = [pipe2 EXCEPT !.wr = TRUE]
       ELSE /\ main' = Returned("start2")
            /\ UNCHANGED <<p2, pipe2>>
  /\ UNCHANGED <<host, fsVars, call, p1, pipe1, relay, pathVars>>

\* lines 179-182: the relay goroutine is started
RelayStart ==
  /\ main.pc = "go"
  /\ main' = Proceeds("wait1", "relay")
  /\ relay' = [relay EXCEPT !.pc = "read"]
  /\ UNCHANGED <<host, fsVars, call, p1, p2, pipe1, pipe2, pathVars>>

\* Process 1 (7za e -txz -so): it fails, or exits after the last block, or
\* writes the next block when the pipe has room; a full pipe blocks it
P1Step ==
  /\ p1.st = "running"
  /\ IF p1.next = p1.failAt
     THEN /\ p1' = [p1 EXCEPT !.st = "exited", !.status = 1]
          /\ UNCHANGED pipe1
     ELSE IF p1.next > p1.n
     THEN /\ p1' = [p1 EXCEPT !.st = "exited", !.status = 0]
          /\ UNCHANGED pipe1
     ELSE /\ Len(pipe1.buf) < PipeCap
          /\ pipe1' = [pipe1 EXCEPT !.buf = Append(@, p1.next)]
          /\ p1' = [p1 EXCEPT !.next = @ + 1]
  /\ UNCHANGED <<host, fsVars, call, main, p2, pipe2, relay, pathVars>>

\* line 181, io.Copy reading xzStdout: a read of a closed file fails, a read
\* returns some of the blocks in the pipe, an empty pipe whose writer has
\* exited is at end-of-stream; otherwise the read blocks
RelayRead ==
  /\ relay.pc = "read"
  /\ IF ~pipe1.rd
     THEN /\ relay' = [relay EXCEPT !.pc = AfterCopy]
          /\ UNCHANGED pipe1
     ELSE IF pipe1.buf # <<>>
     THEN \E k \in 1..Len(pipe1.buf) :
            /\ relay' = [pc |-> "write", chunk |-> SubSeq(pipe1.buf, 1, k)]
            /\ pipe1' = [pipe1 EXCEPT !.buf = SubSeq(@, k + 1, Len(@))]
     ELSE /\ p1.st = "exited"
          /\ relay' = [relay EXCEPT !.pc = AfterCopy]
          /\ UNCHANGED pipe1
  /\ UNCHANGED <<host, fsVars, call, main, p1, p2, pipe2, pathVars>>

\* line 181, io.Copy writing tarStdin: a write to a pipe whose reader has
\* exited, or to a closed file, fails and ends the copy; a write moves a
\* block when the pipe has room; otherwise it blocks
RelayWrite ==
  /\ relay.pc = "write"
  /\ IF p2.st = "exited" \/ ~pipe2.wr
     THEN /\ relay' = [pc |-> AfterCopy, chunk |-> <<>>]
          /\ UNCHANGED pipe2
     ELSE /\ Len(pipe2.buf) < PipeCap
          /\ pipe2' = [pipe2 EXCEPT !.buf = Append(@, Head(relay.chunk))]
          /\ relay' = IF Len(relay.chunk) = 1
                      THEN [pc |-> "read", chunk |-> <<>>]
                      ELSE [relay EXCEPT !.chunk = Tail(@)]
  /\ UNCHANGED <<host, fsVars, call, main, p1, p2, pipe1, pathVars>>

\* line 180: the deferred tarStdin.Close()
RelayClose ==
  /\ relay.pc = "close"
  /\ relay' = [relay EXCEPT !.pc = "done"]
  /\ pipe2' = [pipe2 EXCEPT !.wr = FALSE]
  /\ UNCHANGED <<host, fsVars, call, main, p1, p2, pipe1, pathVars>>

\* Process 2 (7za e -ttar -si): it exits on its own after quitAt blocks, or
\* extracts the next block, or exits at end-of-stream; an empty open pipe
\* blocks it
P2Step ==
  /\ p2.st = "running"
  /\ IF p2.quitAt = Len(p2.got)
     THEN /\ p2' = [p2 EXCEPT !.st = "exited",
                              !.status = IF Len(p2.got) = p1.n THEN 0 ELSE 1]
          /\ UNCHANGED <<pipe2, tmp>>
     ELSE IF pipe2.buf # <<>>
     THEN /\ p2' = [p2 EXCEPT !.got = Append(@, Head(pipe2.buf))]
          /\ pipe2' = [pipe2 EXCEPT !.buf = Tail(@)]
          /\ tmp' = [tmp EXCEPT ![1] =
               TmpDir(Extracted(Append(p2.got, Head(pipe2.buf)), p1.n, p2.hasEntry), "none")]
     ELSE /\ ~pipe2.wr
          /\ p2' = [p2 EXCEPT !.st = "exited",
                              !.status = IF Len(p2.got) = p1.n THEN 0 ELSE 1]
          /\ UNCHANGED <<pipe2, tmp>>
  /\ UNCHANGED <<host, final, dirs, arc, call, main, p1, pipe1, relay, pathVars>>

\* lines 184-187: xzDecompressCommand.Wait(): it returns once Process 1 has
\* exited and closes the read end xzStdout (os/exec closes the pipe of
\* StdoutPipe after seeing the command exit)
XzWait ==
  /\ main.pc = "wait1"
  /\ p1.st = "exited"
  /\ pipe1' = [pipe1 EXCEPT !.rd = FALSE]
  /\ main' = IF WaitError(p1.status) THEN Returned("xz") ELSE Proceeds("wait2", "wait1")
  /\ UNCHANGED <<host, fsVars, call, p1, p2, pipe2, relay, pathVars>>

\* lines 189-192: tarDecompressCommand.Wait(): it returns once Process 2 has
\* exited and closes tarStdin
TarWait ==
  /\ main.pc = "wait2"
  /\ p2.st = "exited"
  /\ pipe2' = [pipe2 EXCEPT !.wr = FALSE]
  /\ main' = IF WaitError(p2.status) THEN Returned("tar") ELSE Proceeds("chmod", "wait2")
  /\ UNCHANGED <<host, fsVars, call, p1, p2, pipe1, relay, pathVars>>

\* lines 194-198: os.Chmod(unpackDir/node, 0755); it fails when the file is
\* not there
Chmod ==
  /\ main.pc = "chmod"
  /\ \E ioerr \in BOOLEAN :
       main' = IF ioerr \/ tmp[1].state = "empty"
               THEN Returned("chmod")
               ELSE [Proceeds("returned", "chmod") EXCEPT !.err = "none"]
  /\ UNCHANGED <<host, fsVars, call, p1, p2, pipe1, pipe2, relay, pathVars>>

\* lines 111-115: DownloadArtifact takes the result of unpackTarXz
UnpackReturn ==
  /\ call[1].pc = "unpack"
  /\ main.pc = "returned"
  /\ call' = IF AfterUnpack(main.err # "none") = "done"
             THEN Failed(1, "unpack", {})
             ELSE Goes(1, AfterUnpack(main.err # "none"), {})
  /\ UNCHANGED <<host, fsVars, pipeVars, pathVars>>

\* the Node.js request of the pipeline specification
NodeRequest == ArtifactReq(<<"node">>, <<"8", Dot, "1", Hy, "x64">>, "")

\* DownloadArtifact has downloaded the archive of the Node.js request and is
\* about to call unpackTarXz
InitPipe ==
  /\ host = LinuxHost
  /\ call = [c \in Calls |->
       IF c = 1
       THEN [IdleCall EXCEPT !.pc = "unpack", !.req = NodeRequest,
                             !.plan = PlanOf(NodeRequest, LinuxHost),
                             !.log = {"stat", "mkdir", "tempdir", "download"},
                             !.dl = "ok"]
       ELSE IdleCall]
  /\ final = [q \in {} |-> Absent]
  /\ dirs = {PlanOf(NodeRequest, LinuxHost).cacheDir}
  /\ tmp = [c \in Calls |-> IF c = 1 THEN TmpDir("empty", "none") ELSE Absent]
  /\ arc = [c \in Calls |-> IF c = 1 THEN "complete" ELSE "absent"]
  /\ main = [pc |-> "start1", err |-> "none", steps |-> <<>>]
  /\ \E n \in 1..MaxStream :
       /\ \E f \in 0..(n + 1) :
            p1 = [st |-> "unstarted", next |-> 1, n |-> n, failAt |-> f, status |-> 0]
       /\ \E q \in -1..n, e \in BOOLEAN :
            p2 = [st |-> "unstarted", got |-> <<>>, quitAt |-> q, hasEntry |-> e, status |-> 0]
  /\ pipe1 = [buf |-> <<>>, rd |-> FALSE]
  /\ pipe2 = [buf |-> <<>>, wr |-> FALSE]
  /\ relay = [pc |-> "unstarted", chunk |-> <<>>]
  /\ IdlePath

\* the steps of the calling goroutine, the relay, and the two processes
MainStep == XzStart \/ TarStart \/ RelayStart \/ XzWait \/ TarWait \/ Chmod
RelayStep == RelayRead \/ RelayWrite \/ RelayClose
PipeStep == MainStep \/ RelayStep \/ P1Step \/ P2Step

NextPipe ==
  \/ XzStart
  \/ TarStart
  \/ RelayStart
  \/ P1Step
  \/ RelayRead
  \/ RelayWrite
  \/ RelayClose
  \/ P2Step
  \/ XzWait
  \/ TarWait
  \/ Chmod
  \/ UnpackReturn
  \/ ArchiveVanishes(1)
  \/ Remove(1)
  \/ Publish(1)

SpecPipe == InitPipe /\ [][NextPipe]_vars

\* the scheduler runs every goroutine and process that can take a step
FairSpecPipe ==
  /\ SpecPipe
  /\ WF_vars(MainStep)
  /\ WF_vars(RelayStep)
  /\ WF_vars(P1Step)
  /\ WF_vars(P2Step)

\* both processes were started and unpackTarXz has not returned
InPipeline == main.pc \in {"go", "wait1", "wait2", "chmod"}

\* C6: when Process 2 reads its input until end-of-stream, unpackTarXz
\* eventually returns, for every stream length (also beyond what the pipes
\* hold), under fair scheduling of both processes, the relay and the caller.
C6_DrainingUnpackReturns ==
  [](p2.quitAt = -1 => <>(main.pc = "returned"))

\* C6 witness: unpackTarXz returned success for a stream longer than both
\* pipes together hold, Process 2 having read to end-of-stream
C6_Witness ==
  /\ main.pc = "returned" /\ main.err = "none"
  /\ p2.quitAt = -1
  /\ p1.n > 2 * PipeCap
  /\ p2.got = Blocks(p1.n)

\* C7: once the relay has closed Process 2's input, every block Process 1
\* wrote has been delivered to Process 2's input, in order and without loss
\* (Process 2 reading until end-of-stream).
C7_AllBytesDelivered ==
  (relay.pc = "done" /\ p2.quitAt = -1)
  => p2.got \o pipe2.buf = Blocks(p1.next - 1)

\* C10: in every execution in which both processes were started,
\* unpackTarXz returns: it is never stuck with no goroutine or process able
\* to take a step.
C10_NeverStuck ==
  InPipeline => ENABLED PipeStep

\* the steps of a successful unpackTarXz, in order
SuccessSteps == <<"start1", "start2", "relay", "wait1", "wait2", "chmod">>

\* C11: unpackTarXz has returned success only after, in this order, starting
\* both processes, starting the relay, waiting on Process 1 (exit status 0),
\* waiting on Process 2 (exit status 0) and setting the permission of the
\* extracted binary; when it has returned and either process exited non-zero
\* it has returned an error, and DownloadArtifact, once it has taken an error
\* from unpackTarXz, has returned an error and published nothing.
C11_SuccessSequence ==
  /\ (main.pc = "returned" /\ main.err = "none")
     => /\ main.steps = SuccessSteps
        /\ p1.st = "exited" /\ p1.status = 0
        /\ p2.st = "exited" /\ p2.status = 0
        /\ relay.pc # "unstarted"
        /\ tmp[1].kind = "dir" => tmp[1].state # "empty"
  /\ ( /\ main.pc = "returned"
       /\ \/ p1.st = "exited" /\ p1.status # 0
          \/ p2.st = "exited" /\ p2.status # 0 )
     => main.err # "none"
  /\ (main.pc = "returned" /\ main.err # "none" /\ call[1].pc # "unpack")
     => /\ Done(1) /\ call[1].ret = "error" /\ call[1].why = "unpack"
        /\ "rename" \notin call[1].log
        /\ ~call[1].renamed
        /\ DOMAIN final = {}

\* C11 witness: Process 1 exited with status 0 and was waited on, Process 2
\* exited non-zero, and DownloadArtifact has returned the error
C11_Witness ==
  /\ main.pc = "returned" /\ main.err = "tar"
  /\ main.steps = <<"start1", "start2", "relay", "wait1">>
  /\ p1.status = 0 /\ p2.st = "exited" /\ p2.status # 0
  /\ Done(1) /\ call[1].why = "unpack"

\* C12: a call that reached the archive-deletion step and found the archive
\* already gone has not failed: it went on to the publish step and returned
\* the path.
C12_GoneArchiveIsNoError ==
  \A c \in Calls :
    (Done(c) /\ "remove" \in call[c].log /\ arc[c] = "absent")
    => /\ call[c].ret = "path"
       /\ "rename" \in call[c].log

\* the entry at a final path passes the hit test of the lookup
Usable(fp) ==
  /\ EntryAt(fp).kind # "absent"
  /\ EntryAt(fp).kind = "dir" \/ HasSuffix(fp, ExtTar)

\* C13: the cache lookup of a call touches nothing and ends in one of three
\* ways: the call returns the final path (only when the final path exists
\* and is a directory or has the .tar suffix, and then always unless the
\* stat fails), the call proceeds to acquisition (always when the final path
\* does not exist, unless the stat fails), or the call returns a lookup
\* error; a call that returned a lookup error has created no directory or
\* temp entry and started no download or process.
C13_LookupOutcomes ==
  [][\A c \in Calls :
       /\ (call[c].pc = "stat" /\ call'[c].pc # "stat")
          => LET fp == call[c].plan.filePath
             IN  /\ call'[c].log = {"stat"}
                 /\ UNCHANGED fsVars
                 /\ \/ /\ call'[c].pc = "done" /\ call'[c].ret = "path"
                       /\ Usable(fp)
                    \/ /\ call'[c].pc = "mkdir"
                       /\ ~Usable(fp)
                    \/ /\ call'[c].pc = "done" /\ call'[c].ret = "error"
                       /\ call'[c].why = "lookup"
       /\ call'[c].why = "lookup"
          => /\ call'[c].pc = "done"
             /\ call'[c].log = {"stat"}
             /\ tmp'[c] = Absent /\ arc'[c] = "absent"]_vars

\* C13 witness: a call was refused by a stat failure on a final path that
\* another call had published, and a file without the .tar suffix stands at
\* a final path
C13_Witness ==
  \E c, d \in Calls :
    /\ c # d
    /\ Done(d) /\ call[d].why = "lookup"
    /\ call[c].renamed
    /\ call[c].plan.filePath = call[d].plan.filePath
    /\ EntryAt(call[d].plan.filePath).kind = "file"
    /\ ~Usable(call[d].plan.filePath)

\* C14: when a call has returned after its temp directory was allocated
\* (every such call went on to the download), neither its temp directory nor
\* its temp archive is left under the cache root.
C14_TempAreaGone ==
  \A c \in Calls :
    (Done(c) /\ "download" \in call[c].log)
    => /\ tmp[c] = Absent
       /\ arc[c] = "absent"

\* the request DownloadArtifact("zstd", "", "")
ZstdRequest == ArtifactReq(<<"zstd">>, <<>>, "")

\* the checksum and the OS qualifier of the host's own OS family in the zstd
\* descriptor, keyed by the normalised architecture
HostEntry(h) ==
  IF h.goos = "darwin"
  THEN [checksum |-> ZstdDescriptor.mac, osAndArch |-> <<"mac">>]
  ELSE IF h.goos = "windows"
  THEN [checksum |-> MapGet(ZstdDescriptor.win, ToolArch(h.goarch)),
        osAndArch |-> <<"win", Hy, ToolArch(h.goarch)>>]
  ELSE [checksum |-> MapGet(ZstdDescriptor.linux, ToolArch(h.goarch)),
        osAndArch |-> <<"linux", Hy, ToolArch(h.goarch)>>]

\* C15: DownloadArtifact("zstd") resolves the tool from the table of the
\* host's OS family (mac on macOS, windows on Windows, linux on Linux) under
\* the normalised architecture: it is refused when that table has no
\* checksum, and otherwise (the cache root being resolved) downloads with
\* that checksum an artifact whose name carries the same OS qualifier.
C15_HostTableUsed ==
  \A c \in Calls :
    (call[c].pc # "idle" /\ call[c].req = ZstdRequest)
    => IF HostEntry(host).checksum = ""
       THEN call[c].plan.outcome = "error" /\ call[c].plan.why = "checksum"
       ELSE \/ call[c].plan.outcome = "error" /\ call[c].plan.why = "home"
            \/ /\ call[c].plan.outcome = "ok"
               /\ call[c].plan.checksum = HostEntry(host).checksum
               /\ call[c].plan.dirName =
                    <<"zstd", Hy, "1", Dot, "3", Dot, "4", Hy>> \o HostEntry(host).osAndArch

\* ------------------------------------------------ the cache-root resolver

\* values of $LOCALAPPDATA: unset, a user profile, and two spellings of the
\* profile of the system account under the system directory
UserAppData == <<"C:", Bs, "Users", Bs, "u", Bs, "AppData", Bs, "Local">>
SystemAppData ==
  { <<"C:", Bs, w, Bs, s32, Bs, "config", Bs, "systemprofile">> :
      w \in {"Windows", "WINDOWS"}, s32 \in {"System32", "system32"} }

\* the hosts of the resolver specification: every OS, with and without the
\* override, each value of $LOCALAPPDATA and $USERNAME, and a home-directory
\* lookup that succeeds or fails
CacheHosts ==
  { [goos |-> os, goarch |-> "amd64", cacheEnv |-> env, localAppData |-> lad,
     username |-> <<user>>,
     home |-> [err |-> e,
               dir |-> IF os = "windows" THEN <<"C:", Bs, "Users", Bs, "u">> ELSE <<Sl, "h">>],
     tempDir |-> IF os = "windows" THEN <<"C:", Bs, "Temp">> ELSE <<Sl, "tmp">>] :
      os \in {"linux", "darwin", "windows"},
      env \in {<<>>, <<Sl, "r", Sl>>},
      lad \in {<<>>, UserAppData} \cup SystemAppData,
      user \in {"u", "SYSTEM", "System"},
      e \in BOOLEAN }

\* the namespaces GetCacheDirectory is called with
CacheNamespaces == {ProductName, <<"x">>}

InitCache ==
  /\ host \in CacheHosts
  /\ call = [c \in Calls |-> IdleCall]
  /\ IdleFs
  /\ IdlePipe
  /\ pIn \in CacheNamespaces
  /\ pOut = <<>>

\* lines 251-279 applied to the namespace under test
CacheApply ==
  /\ pOut = <<>>
  /\ pOut' = GetCacheDirectory(pIn, host)
  /\ UNCHANGED <<host, fsVars, call, pipeVars, pIn>>

NextCache == CacheApply

SpecCache == InitCache /\ [][NextCache]_vars

\* the host's home directory is needed: no override, and macOS or no usable
\* $LOCALAPPDATA on Windows
NeedsHome(h) ==
  /\ h.cacheEnv = <<>>
  /\ h.goos = "darwin" \/ ~(h.goos = "windows" /\ h.localAppData # <<>>)

\* C16: GetCacheDirectory returns the override verbatim when it is set;
\* else on macOS home/Library/Caches/namespace; else on Windows with
\* $LOCALAPPDATA set localAppData/namespace/cache, or tempDir/namespace-cache
\* when $LOCALAPPDATA is under the system directory or the user is the system
\* account; else home/.cache/electron-builder; and it returns an error
\* exactly when the home directory is needed and its lookup fails.
C16_CacheDirectoryPrecedence ==
  pOut # <<>>
  => LET h == host
         sep == <<Sep(h)>>
     IN  /\ pOut.err = (NeedsHome(h) /\ h.home.err)
         /\ ~pOut.err =>
              pOut.path =
                IF h.cacheEnv # <<>> THEN h.cacheEnv
                ELSE IF h.goos = "darwin"
                THEN h.home.dir \o sep \o <<"Library">> \o sep \o <<"Caches">> \o sep \o pIn
                ELSE IF h.goos = "windows" /\ h.localAppData # <<>>
                THEN IF h.localAppData \in SystemAppData
                        \/ h.username \in {<<"SYSTEM">>, <<"System">>}
                     THEN h.tempDir \o sep \o pIn \o <<Hy, "cache">>
                     ELSE h.localAppData \o sep \o pIn \o sep \o <<"cache">>
                ELSE h.home.dir \o sep \o <<Dot, "cache">> \o sep \o ProductName

\* C16 witness: on Windows, with no override and a failing home lookup, the
\* system account's profile resolved to the temp directory
C16_Witness ==
  /\ pOut # <<>>
  /\ host.goos = "windows" /\ host.cacheEnv = <<>> /\ host.home.err
  /\ host.localAppData \in SystemAppData
  /\ pIn = <<"x">>
  /\ pOut = [err |-> FALSE, path |-> <<"C:", Bs, "Temp", Bs, "x", Hy, "cache">>]

\* ------------------------------------------- DownloadCompressedArtifact

\* a call of DownloadCompressedArtifact(subDir, url, checksum)
CompressedReq(subDir, url, checksum) ==
  [entry |-> "compressed", subDir |-> subDir, url |-> url, checksum |-> checksum]

\* lines 202-211: the cache directory and the final path of the file
CompressedPlan(a, h) ==
  LET root == GetCacheDirectory(ProductName, h)
  IN  IF root.err THEN [outcome |-> "error", why |-> "home"]
      ELSE LET cacheDir == IF Len(a.subDir) # 0
                           THEN Join(root.path, a.subDir, Sep(h))
                           ELSE root.path
           IN  [outcome |-> "ok",
                url |-> a.url,
                checksum |-> a.checksum,
                cacheDir |-> cacheDir,
                filePath |-> Join(cacheDir, PathBase(a.url), Sep(h))]

\* AfterRename with the error of os.Rename ignored
AfterRenameIgnoringError(ok) == "path"

\* lines 243-248: the result of the call after os.Rename(tempFile, filePath)
AfterRename(ok) == IF ok THEN "path" ELSE "error"

\* lines 201-211: the call is made
CompressedBegin(c, a) ==
  /\ call[c].pc = "idle"
  /\ LET plan == CompressedPlan(a, host)
     IN  call' = [call EXCEPT ![c] =
           [IdleCall EXCEPT
              !.pc = IF plan.outcome = "ok" THEN "stat" ELSE "done",
              !.req = a,
              !.plan = plan,
              !.ret = IF plan.outcome = "ok" THEN "none" ELSE "error",
              !.why = IF plan.outcome = "ok" THEN "none" ELSE plan.why,
              !.after = {d \in Calls : /\ call[d].pc = "done"
                                       /\ call[d].ret = "path"
                                       /\ call[d].req = a}]]
  /\ UNCHANGED <<host, fsVars, pipeVars, pathVars>>

\* lines 216-224: os.Stat(filePath): whatever is there is a hit
CompressedStat(c) ==
  /\ call[c].pc = "stat"
  /\ \E ioerr \in BOOLEAN :
       call' = IF ioerr THEN Failed(c, "lookup", {"stat"})
               ELSE IF EntryAt(PlanOfCall(c).filePath).kind # "absent"
               THEN [call EXCEPT ![c].pc = "done", ![c].ret = "path",
                                 ![c].log = @ \cup {"stat"}]
               ELSE Goes(c, "mkdir", {"stat"})
  /\ UNCHANGED <<host, fsVars, pipeVars, pathVars>>

\* lines 226-229: os.MkdirAll(cacheDir)
CompressedMkdirAll(c) ==
  /\ call[c].pc = "mkdir"
  /\ \E ioerr \in BOOLEAN :
       /\ call' = IF ioerr THEN Failed(c, "mkdir", {"mkdir"})
                  ELSE Goes(c, "tempfile", {"mkdir"})
       /\ dirs' = IF ioerr THEN dirs ELSE dirs \cup {PlanOfCall(c).cacheDir}
  /\ UNCHANGED <<host, final, tmp, arc, pipeVars, pathVars>>

\* lines 231-234: util.TempFile(cacheDir, ".snap"): a fresh name for the
\* call's temp file
CompressedTempFile(c) ==
  /\ call[c].pc = "tempfile"
  /\ \E ioerr \in BOOLEAN :
       call' = IF ioerr THEN Failed(c, "tempfile", {"tempfile"})
               ELSE Goes(c, "download", {"tempfile"})
  /\ UNCHANGED <<host, fsVars, pipeVars, pathVars>>

\* line 237, the download collaborator at work: it writes the temp file
CompressedDownloadWrite(c) ==
  /\ call[c].pc = "download"
  /\ arc[c] = "absent"
  /\ arc' = [arc EXCEPT ![c] = "partial"]
  /\ call' = Goes(c, "download", {"download"})
  /\ UNCHANGED <<host, final, dirs, tmp, pipeVars, pathVars>>

\* lines 237-240: the download collaborator returns: the file is fetched and
\* verified, or an error
CompressedDownloadEnd(c) ==
  /\ call[c].pc = "download"
  /\ \E err \in BOOLEAN :
       /\ call' = [(IF err THEN Failed(c, "download", {"download"})
                          ELSE Goes(c, "rename", {"download"}))
                    EXCEPT ![c].dl = IF err THEN "failed" ELSE "ok"]
       /\ arc' = IF err THEN arc ELSE [arc EXCEPT ![c] = "complete"]
  /\ UNCHANGED <<host, final, dirs, tmp, pipeVars, pathVars>>

\* lines 243-248: os.Rename(tempFile, filePath) and the return
CompressedRename(c) ==
  /\ call[c].pc = "rename"
  /\ \E ioerr \in BOOLEAN :
       LET fp == PlanOfCall(c).filePath
           src == [kind |-> "file", state |-> arc[c]]
           ok == RenameOk(src, EntryAt(fp), ioerr)
       IN  /\ final' = IF ok
                       THEN [q \in DOMAIN final \cup {fp} |->
                               IF q = fp THEN Entry("file", arc[c], c) ELSE final[q]]
                       ELSE final
           /\ arc' = IF ok THEN [arc EXCEPT ![c] = "absent"] ELSE arc
           /\ call' = [call EXCEPT ![c].pc = "done", ![c].ret = AfterRename(ok),
                                   ![c].why = IF AfterRename(ok) = "error" THEN "rename" ELSE "none",
                                   ![c].renamed = ok,
                                   ![c].log = @ \cup {"rename"}]
  /\ UNCHANGED <<host, dirs, tmp, pipeVars, pathVars>>

\* the requests of the single-file specification: a file in a subdirectory
\* and a file of another name directly under the cache root
CompressedRequests ==
  { CompressedReq(<<"d">>, SampleHost \o <<"a", Dot, "snap">>, "sum"),
    CompressedReq(<<>>, SampleHost \o <<"p", Sl, "b", Dot, "snap">>, "") }

NextCompressed ==
  \E c \in Calls :
    \/ \E a \in CompressedRequests : CompressedBegin(c, a)
    \/ CompressedStat(c)
    \/ CompressedMkdirAll(c)
    \/ CompressedTempFile(c)
    \/ CompressedDownloadWrite(c)
    \/ CompressedDownloadEnd(c)
    \/ CompressedRename(c)

SpecCompressed == Init /\ [][NextCompressed]_vars

\* C17: in every step of concurrent DownloadCompressedArtifact calls, an
\* entry appears or changes at a final path only by the rename of the temp
\* file of a call whose download succeeded, and is then the complete file;
\* a call whose download fails returns an error and publishes nothing; a
\* cache lookup that finds any entry returns the path with no download; a
\* failed rename is returned as an error; and a call returns the path only
\* after a lookup that found the entry or after its own successful rename.
C17_SingleFilePublish ==
  [][/\ \A fp \in DOMAIN final' :
          EntryAt(fp) # final'[fp]
          => \E c \in Calls :
               /\ call[c].pc = "rename" /\ call'[c].pc = "done"
               /\ call[c].plan.filePath = fp
               /\ call[c].dl = "ok" /\ arc[c] = "complete"
               /\ final'[fp] = Entry("file", "complete", c)
     /\ \A c \in Calls :
          LET fp == call'[c].plan.filePath
          IN  /\ call'[c].dl = "failed"
                 => /\ call'[c].pc = "done" /\ call'[c].ret = "error"
                    /\ ~call'[c].renamed
                    /\ \A q \in DOMAIN final' : final'[q].by # c
              /\ (call[c].pc = "stat" /\ call'[c].pc # "stat" /\ EntryAt(fp).kind # "absent")
                 => /\ call'[c].ret = "path" \/ call'[c].why = "lookup"
                    /\ call'[c].log = {"stat"}
              /\ (call[c].pc = "rename" /\ call'[c].pc = "done" /\ ~call'[c].renamed)
                 => call'[c].ret = "error" /\ call'[c].why = "rename"
              /\ (call'[c].pc = "done" /\ call'[c].ret = "path")
                 => /\ fp \in DOMAIN final'
                    /\ call'[c].log = {"stat"} \/ call'[c].renamed]_vars

\* C17 witness: of two concurrent calls for the same file that both
\* downloaded it, one published it and the other's rename failed and was
\* returned as an error
C17_Witness ==
  \E c, d \in Calls :
    /\ Concurrent(c, d)
    /\ Done(c) /\ call[c].renamed /\ call[c].ret = "path"
    /\ Done(d) /\ call[d].dl = "ok" /\ call[d].ret = "error" /\ call[d].why = "rename"
    /\ EntryAt(call[d].plan.filePath) = Entry("file", "complete", c)

\* C18: when unpackTarXz has returned, each process it started has exited
\* and was waited on (Process 1 is not waited on when the function returns
\* at the start of Process 2, Process 2 is not when it returns at the wait
\* on Process 1), and the relay, if started, has finished.
C18_NothingOutlivesUnpack ==
  main.pc = "returned"
  => /\ p1.st # "unstarted" => (p1.st = "exited" /\ main.err # "start2")
     /\ p2.st # "unstarted" => (p2.st = "exited" /\ main.err # "xz")
     /\ relay.pc \in {"unstarted", "done"}

\* C19: every request with name "node" returns normally: for a token with a
\* hyphen the plan uses the distribution-site URL built from the version
\* before the first hyphen, the directory name node-<token> under family
\* node, and the streaming unpack; for a token without a hyphen the call
\* returns an error value.
C19_NodeNeverAborts ==
  (pOut # <<>> /\ pIn.name = <<"node">>)
  => IF Index(pIn.url, Hy) >= 0
     THEN /\ pOut.outcome = "ok"
          /\ pOut.isNode
          /\ pOut.url = NodeUrl(SubSeq(pIn.url, 1, Index(pIn.url, Hy)), pIn.url)
          /\ pOut.dirName = <<"node", Hy>> \o pIn.url
          /\ pOut.cacheDir = Root \o <<Sl, "node">>
     ELSE pOut.outcome = "error"

====
